---- MODULE Spec2Model ----
(***************************************************************************)
(* KanMind (Django REST framework): boards, columns, tasks and comments.   *)
(* The state is the relational store; every action of Spec is one request  *)
(* handler of boards_app/api/views.py together with its permission classes *)
(* and its serializer. StatementSpec runs board creation statement by      *)
(* statement (perform_create opens no transaction) next to the other board *)
(* requests.                                                               *)
(***************************************************************************)
EXTENDS Integers, FiniteSets, Sequences, TLC

\* ---------------------------------------------------------------- bounds
NumUsers == 2
MaxBoards == 2
MaxTasks == 1
MaxComments == 1
MaxRequests == 4
MaxColumnWrites == 1

\* ------------------------------------------------------------ data model
\* A null foreign key (Task.column, Task.assignee, ... are null=True).
NoId == 0

\* A null date or time (Task.due_date, Task.completed_at are null=True);
\* dates are day numbers from 1.
NoDate == 0

Users == 1..NumUsers

\* The callers of a request: a user, or NoId for a request that carries no
\* valid credentials (AnonymousUser).
Callers == Users \cup {NoId}

\* Column.Status
Statuses == {"TODO", "IN_PROGRESS", "REVIEW", "DONE"}

VARIABLES
    boards,      \* board id  -> [owner, members]
    columns,     \* column id -> [board, status, position]
    tasks,       \* task id   -> [board, column, priority, assignee, reviewer, created_by,
                 \*               due_date, completed_at]
    comments,    \* activity id -> [task, author]
    nextId,      \* [board, column, task, comment]: the next auto-increment key of each table
    served,      \* the number of requests received so far
    columnWrites, \* the number of column requests that wrote so far
    creating,    \* the board creation in flight: NoRequest or [user, board, pc, k]
    accounts,    \* user id -> [email, username]: the auth_user table
    registering, \* registration request -> [pc, email, username]: its position
    last         \* the latest finished request and its response

vars == <<boards, columns, tasks, comments, nextId, served, columnWrites, creating,
          accounts, registering, last>>

NoRequest == [user |-> NoId, board |-> NoId, pc |-> "idle", k |-> 0]

\* The latest request: the operation, the calling user, the key of the row
\* it addressed (NoId when no such row exists; the board named in the payload
\* for task_create), the outcome (the success status or the exception
\* raised) and the field a ValidationError is keyed by.
Response(op, user, id, result, key) ==
    [op |-> op, user |-> user, id |-> id, result |-> result, key |-> key]

\* A request is received: the handler runs.
Receive ==
    /\ served < MaxRequests
    /\ served' = served + 1

\* A column request writes (w) or is refused.
ColumnWrite(w) ==
    /\ w => columnWrites < MaxColumnWrites
    /\ columnWrites' = IF w THEN columnWrites + 1 ELSE columnWrites

\* ------------------------------------------------------- store helpers
BoardIds == DOMAIN boards
ColumnIds == DOMAIN columns
TaskIds == DOMAIN tasks
CommentIds == DOMAIN comments

Drop(f, ks) == [x \in DOMAIN f \ ks |-> f[x]]
Put(f, k, v) == [x \in DOMAIN f \cup {k} |-> IF x = k THEN v ELSE f[x]]

ColumnsOf(b) == {c \in ColumnIds : columns[c].board = b}
TasksOf(b) == {t \in TaskIds : tasks[t].board = b}
CommentsOf(t) == {a \in CommentIds : comments[a].task = t}

\* ---------------------------------------------------------- permissions
\* permissions.IsAuthenticated, first of every view's permission_classes.
IsAuthenticated(u) == u \in Users

\* The HTTP status of an outcome. NotAuthenticated is answered 401 because
\* the project authenticates by token (the authentication classes are set in
\* the project settings).
StatusCode(result) ==
    CASE result = "ok" -> 200
      [] result = "created" -> 201
      [] result = "no_content" -> 204
      [] result = "ValidationError" -> 400
      [] result = "NotAuthenticated" -> 401
      [] result = "PermissionDenied" -> 403
      [] result = "NotFound" -> 404
      [] OTHER -> 500

\* permissions.IsBoardMember.has_object_permission, with the board the object
\* resolves to: the owner or a member of the board.
IsBoardMember(u, b) ==
    \/ boards[b].owner = u
    \/ u \in boards[b].members

\* A delete permission that asks for nothing beyond the other classes.
AnyoneForBoardDelete(u, b, method) == TRUE

\* permissions.IsBoardOwnerForBoardDelete.has_object_permission for a Board.
IsBoardOwnerForBoardDelete(u, b, method) ==
    IF method # "DELETE" THEN TRUE ELSE boards[b].owner = u

\* A delete permission that also admits the task's assignee.
IsTaskCreatorAssigneeOrBoardOwner(u, t, method) ==
    IF method # "DELETE" THEN TRUE
    ELSE \/ boards[tasks[t].board].owner = u
         \/ tasks[t].created_by = u
         \/ tasks[t].assignee = u

\* permissions.IsTaskCreatorOrBoardOwner.has_object_permission for a Task.
IsTaskCreatorOrBoardOwner(u, t, method) ==
    IF method # "DELETE" THEN TRUE
    ELSE \/ boards[tasks[t].board].owner = u
         \/ tasks[t].created_by = u

\* BoardViewSet.permission_classes, checked by get_object on the board.
BoardPermissions(u, b, method) ==
    /\ IsBoardMember(u, b)
    /\ IsBoardOwnerForBoardDelete(u, b, method)

\* TaskViewSet.permission_classes, checked by get_object on the task.
TaskPermissions(u, t, method) ==
    /\ IsBoardMember(u, tasks[t].board)
    /\ IsTaskCreatorOrBoardOwner(u, t, method)

\* ------------------------------------------------------ request inputs
\* An optional request field: {} when the payload omits it, {v} when it
\* carries v.
Optional(S) == {{}} \cup {{v} : v \in S}
Given(o) == o # {}
ValueOf(o) == CHOOSE v \in o : TRUE

\* Keys a client may name; a key that names no row gives 404 (or a field error).
BoardKeys == 1..MaxBoards
TaskKeys == 1..MaxTasks
CommentKeys == 1..MaxComments

\* ------------------------------------------------------ board creation
\* BoardViewSet.perform_create: default_columns, in creation order.
DefaultColumns ==
    << [status |-> "TODO",        position |-> 1],
       [status |-> "IN_PROGRESS", position |-> 2],
       [status |-> "REVIEW",      position |-> 3],
       [status |-> "DONE",        position |-> 4] >>

ColumnKeys == 1..(Len(DefaultColumns) * MaxBoards + MaxColumnWrites)

\* serializer.save(owner=user): the row BoardListSerializer inserts.
NewBoard(u) == [owner |-> u, members |-> {}]

\* board.members.add(user)
AddMember(bs, b, u) == [bs EXCEPT ![b].members = @ \cup {u}]

\* Default columns positioned by their index in the list, from 0.
DefaultColumnFromZero(b, k) ==
    [board |-> b, status |-> DefaultColumns[k].status, position |-> k - 1]

\* Column.objects.create(board=board, name=..., status=..., position=...)
DefaultColumn(b, k) ==
    [board |-> b, status |-> DefaultColumns[k].status,
     position |-> DefaultColumns[k].position]

\* POST /api/boards/: the whole of perform_create.
BoardCreate(u) ==
    LET b == nextId.board
        c0 == nextId.column
        n == Len(DefaultColumns)
    IN  /\ Receive
        /\ b \in BoardKeys
        /\ boards' = AddMember(Put(boards, b, NewBoard(u)), b, u)
        /\ columns' = [c \in ColumnIds \cup (c0..(c0 + n - 1)) |->
                          IF c \in ColumnIds THEN columns[c]
                          ELSE DefaultColumn(b, c - c0 + 1)]
        /\ nextId' = [nextId EXCEPT !.board = b + 1, !.column = c0 + n]
        /\ last' = Response("board_create", u, b, "created", "")
        /\ UNCHANGED <<tasks, comments, columnWrites, creating, accounts, registering>>

\* The same handler, statement by statement. serializer.save(owner=user):
\* the board row is inserted and committed.
BoardCreateSave(u) ==
    /\ Receive
    /\ creating = NoRequest
    /\ nextId.board \in BoardKeys
    /\ boards' = Put(boards, nextId.board, NewBoard(u))
    /\ nextId' = [nextId EXCEPT !.board = @ + 1]
    /\ creating' = [user |-> u, board |-> nextId.board, pc |-> "add_member", k |-> 0]
    /\ UNCHANGED <<columns, tasks, comments, columnWrites, last, accounts, registering>>

\* board.members.add(user); the insert fails on its foreign key when the
\* board row is gone.
BoardCreateAddMember ==
    /\ creating.pc = "add_member"
    /\ IF creating.board \in BoardIds
       THEN /\ boards' = AddMember(boards, creating.board, creating.user)
            /\ creating' = [creating EXCEPT !.pc = "columns"]
            /\ UNCHANGED last
       ELSE /\ creating' = NoRequest
            /\ last' = Response("board_create", creating.user, creating.board, "ServerError", "")
            /\ UNCHANGED boards
    /\ UNCHANGED <<columns, tasks, comments, nextId, served, columnWrites, accounts, registering>>

\* One turn of the loop over default_columns. After the last column the
\* handler returns 201.
BoardCreateColumn ==
    /\ creating.pc = "columns"
    /\ IF creating.board \in BoardIds
       THEN /\ columns' = Put(columns, nextId.column,
                              DefaultColumn(creating.board, creating.k + 1))
            /\ nextId' = [nextId EXCEPT !.column = @ + 1]
            /\ IF creating.k + 1 = Len(DefaultColumns)
               THEN /\ creating' = NoRequest
                    /\ last' = Response("board_create", creating.user, creating.board, "created", "")
               ELSE /\ creating' = [creating EXCEPT !.k = @ + 1]
                    /\ UNCHANGED last
       ELSE /\ creating' = NoRequest
            /\ last' = Response("board_create", creating.user, creating.board, "ServerError", "")
            /\ UNCHANGED <<columns, nextId>>
    /\ UNCHANGED <<boards, tasks, comments, served, columnWrites, accounts, registering>>

\* A statement of perform_create raises (the store refuses the write): the
\* exception leaves the handler, which has no transaction to roll back.
BoardCreateFail ==
    /\ creating # NoRequest
    /\ creating' = NoRequest
    /\ last' = Response("board_create", creating.user, creating.board, "ServerError", "")
    /\ UNCHANGED <<boards, columns, tasks, comments, nextId, served, columnWrites,
                   accounts, registering>>

\* ------------------------------------------------------- cascade deletes
\* Task.column is on_delete=SET_NULL: the tasks after columns cs are deleted.
TasksAfterColumnDelete(cs) ==
    [t \in TaskIds |-> IF tasks[t].column \in cs
                       THEN [tasks[t] EXCEPT !.column = NoId]
                       ELSE tasks[t]]

\* Column.board and Task.board are on_delete=CASCADE.
CascadeColumns(b) == Drop(columns, ColumnsOf(b))
CascadeTasks(b) == Drop(TasksAfterColumnDelete(ColumnsOf(b)), TasksOf(b))

\* Activity.task is on_delete=CASCADE.
CascadeComments(ts) == Drop(comments, {a \in CommentIds : comments[a].task \in ts})

\* ------------------------------------------------------------- boards
\* A detail lookup through the list queryset: a board the caller is no
\* member of is answered like a board that does not exist.
BoardAccessThroughListQueryset(u, b, method) ==
    IF ~IsAuthenticated(u) THEN "NotAuthenticated"
    ELSE IF b \notin BoardIds \/ ~IsBoardMember(u, b) THEN "NotFound"
    ELSE IF ~BoardPermissions(u, b, method) THEN "PermissionDenied"
    ELSE "ok"

\* check_permissions (IsAuthenticated) in initial(), then
\* BoardViewSet.get_object for retrieve, update, partial_update and destroy.
BoardAccess(u, b, method) ==
    IF ~IsAuthenticated(u) THEN "NotAuthenticated"
    ELSE IF b \notin BoardIds THEN "NotFound"
    ELSE IF ~BoardPermissions(u, b, method) THEN "PermissionDenied"
    ELSE "ok"

\* GET /api/boards/{id}/: retrieve with BoardDetailSerializer, a pure read.
BoardRetrieve(u, b) ==
    /\ Receive
    /\ last' = Response("board_retrieve", u, IF b \in BoardIds THEN b ELSE NoId,
                        BoardAccess(u, b, "GET"), "")
    /\ UNCHANGED <<boards, columns, tasks, comments, nextId, columnWrites, creating,
                   accounts, registering>>

\* PATCH /api/boards/{id}/ with BoardUpdateSerializer: members, when given,
\* replaces the member set (the title is not part of the state).
BoardUpdate(u, b, m) ==
    LET r == BoardAccess(u, b, "PATCH") IN
    /\ Receive
    /\ boards' = IF r = "ok" /\ Given(m)
                 THEN [boards EXCEPT ![b].members = ValueOf(m)] ELSE boards
    /\ last' = Response("board_update", u, IF b \in BoardIds THEN b ELSE NoId, r, "")
    /\ UNCHANGED <<columns, tasks, comments, nextId, columnWrites, creating, accounts, registering>>

\* DELETE /api/boards/{id}/: destroy, with the store's cascade.
BoardDelete(u, b) ==
    LET r == BoardAccess(u, b, "DELETE") IN
    /\ Receive
    /\ IF r = "ok"
       THEN /\ boards' = Drop(boards, {b})
            /\ columns' = CascadeColumns(b)
            /\ tasks' = CascadeTasks(b)
            /\ comments' = CascadeComments(TasksOf(b))
            /\ last' = Response("board_delete", u, b, "no_content", "")
       ELSE /\ UNCHANGED <<boards, columns, tasks, comments>>
            /\ last' = Response("board_delete", u, IF b \in BoardIds THEN b ELSE NoId, r, "")
    /\ UNCHANGED <<nextId, columnWrites, creating, accounts, registering>>

\* ------------------------------------------------------------- columns
\* ColumnViewSet.get_queryset: the columns of boards the user owns or is a
\* member of; get_object answers 404 for any other key.
ColumnVisible(u, c) ==
    /\ c \in ColumnIds
    /\ IsBoardMember(u, columns[c].board)

\* ColumnSerializer field validation. board is a primary-key field over all
\* boards; unless the update is partial, board and status are required and
\* position has a default.
ColumnInvalidKey(method, p) ==
    IF Given(p.board) /\ ValueOf(p.board) \notin BoardIds THEN "board"
    ELSE IF method # "PATCH" /\ ~Given(p.board) THEN "board"
    ELSE IF method # "PATCH" /\ ~Given(p.status) THEN "status"
    ELSE ""

ColumnStatusInputs == {"TODO", "DONE"}
PositionInputs == {}
ColumnPayloads ==
    [board : Optional(BoardKeys), status : Optional(ColumnStatusInputs),
     position : Optional(PositionInputs)]

NoColumnPayload == [board |-> {}, status |-> {}, position |-> {}]

\* POST /api/columns/: CreateModelMixin.create. No object is looked up, so
\* no object permission runs.
ColumnCreate(u, p) ==
    LET key == ColumnInvalidKey("POST", p)
        row == [board |-> ValueOf(p.board), status |-> ValueOf(p.status),
                position |-> IF Given(p.position) THEN ValueOf(p.position) ELSE 0]
    IN  /\ Receive
        /\ ColumnWrite(key = "")
        /\ IF key = ""
           THEN /\ nextId.column \in ColumnKeys
                /\ columns' = Put(columns, nextId.column, row)
                /\ nextId' = [nextId EXCEPT !.column = @ + 1]
                /\ last' = Response("column_create", u, nextId.column, "created", "")
           ELSE /\ UNCHANGED <<columns, nextId>>
                /\ last' = Response("column_create", u, NoId, "ValidationError", key)
        /\ UNCHANGED <<boards, tasks, comments, creating, accounts, registering>>

\* PATCH /api/columns/{id}/: UpdateModelMixin.partial_update.
ColumnUpdate(u, c, p) ==
    LET key == ColumnInvalidKey("PATCH", p)
        r == IF ~ColumnVisible(u, c) THEN "NotFound"
             ELSE IF key # "" THEN "ValidationError" ELSE "ok"
        old == columns[c]
        row == [board |-> IF Given(p.board) THEN ValueOf(p.board) ELSE old.board,
                status |-> IF Given(p.status) THEN ValueOf(p.status) ELSE old.status,
                position |-> IF Given(p.position) THEN ValueOf(p.position) ELSE old.position]
    IN  /\ Receive
        /\ ColumnWrite(r = "ok")
        /\ columns' = IF r = "ok" THEN [columns EXCEPT ![c] = row] ELSE columns
        /\ last' = Response("column_update", u, IF r = "NotFound" THEN NoId ELSE c, r,
                            IF r = "ValidationError" THEN key ELSE "")
        /\ UNCHANGED <<boards, tasks, comments, nextId, creating, accounts, registering>>

\* DELETE /api/columns/{id}/: the column's tasks keep their row, column NULL.
ColumnDelete(u, c) ==
    LET r == IF ColumnVisible(u, c) THEN "no_content" ELSE "NotFound" IN
    /\ Receive
    /\ ColumnWrite(r = "no_content")
    /\ columns' = IF r = "no_content" THEN Drop(columns, {c}) ELSE columns
    /\ tasks' = IF r = "no_content" THEN TasksAfterColumnDelete({c}) ELSE tasks
    /\ last' = Response("column_delete", u, IF r = "NotFound" THEN NoId ELSE c, r, "")
    /\ UNCHANGED <<boards, comments, nextId, creating, accounts, registering>>

\* --------------------------------------------------------------- tasks
\* TaskWriteSerializer._get_column_for_status: label_to_choice
LabelToChoice ==
    [l \in {"to-do", "in-progress", "review", "done"} |->
        CASE l = "to-do" -> "TODO"
          [] l = "in-progress" -> "IN_PROGRESS"
          [] l = "review" -> "REVIEW"
          [] l = "done" -> "DONE"]

\* Column.objects.get(board=board, status=choice_value): the rows it matches.
ColumnsWithStatus(b, choice) ==
    {c \in ColumnsOf(b) : columns[c].status = choice}

\* TaskWriteSerializer._get_column_for_status(board, status_label): an unknown
\* label and Column.DoesNotExist are ValidationError("status");
\* Column.MultipleObjectsReturned is not caught and leaves as a 500.
ColumnForStatus(b, label) ==
    IF label \notin DOMAIN LabelToChoice
    THEN [result |-> "ValidationError", key |-> "status", column |-> NoId]
    ELSE LET cs == ColumnsWithStatus(b, LabelToChoice[label]) IN
         IF cs = {}
         THEN [result |-> "ValidationError", key |-> "status", column |-> NoId]
         ELSE IF Cardinality(cs) > 1
         THEN [result |-> "ServerError", key |-> "", column |-> NoId]
         ELSE [result |-> "ok", key |-> "", column |-> CHOOSE c \in cs : TRUE]

\* Column.Status labels ("To Do", ...), lower-cased: what Task.status of
\* models.py would give.
StatusChoiceLabels ==
    [c \in Statuses |->
        CASE c = "TODO" -> "to do"
          [] c = "IN_PROGRESS" -> "in progress"
          [] c = "REVIEW" -> "review"
          [] c = "DONE" -> "done"]

\* TaskReadSerializer.get_status: mapping
StatusMapping ==
    [c \in Statuses |->
        CASE c = "TODO" -> "to-do"
          [] c = "IN_PROGRESS" -> "in-progress"
          [] c = "REVIEW" -> "review"
          [] c = "DONE" -> "done"]

\* str.lower() on the priority labels clients send.
Lower(l) ==
    CASE l \in {"low", "LOW", "Low"} -> "low"
      [] l \in {"medium", "MEDIUM", "Medium"} -> "medium"
      [] l \in {"high", "HIGH", "High"} -> "high"
      [] l \in {"critical", "CRITICAL", "Critical"} -> "critical"
      [] OTHER -> l

\* TaskWriteSerializer._map_priority_label: mapping
PriorityMapping ==
    [l \in {"low", "medium", "high", "critical"} |->
        CASE l = "low" -> "LOW"
          [] l = "medium" -> "MEDIUM"
          [] l = "high" -> "HIGH"
          [] l = "critical" -> "CRITICAL"]

\* TaskWriteSerializer._map_priority_label(label)
MapPriorityLabel(label) ==
    IF Lower(label) \in DOMAIN PriorityMapping
    THEN [result |-> "ok", key |-> "", priority |-> PriorityMapping[Lower(label)]]
    ELSE [result |-> "ValidationError", key |-> "priority", priority |-> ""]

StatusLabelInputs == {"to-do", "done", "started"}
PriorityLabelInputs == {"High"}
\* The requests of Spec carry no due_date; SnapshotSpec draws the due dates.
DueDateInputs == {}
TaskPayloads ==
    {p \in [board : Optional(BoardKeys), status : Optional(StatusLabelInputs),
            priority : Optional(PriorityLabelInputs),
            assignee : Optional(Users \cup {NoId}),
            reviewer : Optional(Users),
            due_date : Optional(DueDateInputs)] :
        ~(Given(p.assignee) /\ Given(p.reviewer))}

\* The payload of a request refused before a serializer reads it.
NoPayload ==
    [board |-> {}, status |-> {}, priority |-> {}, assignee |-> {}, reviewer |-> {},
     due_date |-> {}]

\* TaskWriteSerializer.is_valid: the fields in declaration order, then
\* validate(). validate_board raises NotFound, which is no ValidationError
\* and leaves is_valid at once; board is required unless the serializer is
\* partial; validate() requires status and priority unless the request
\* method is PATCH.
TaskValidation(method, p) ==
    IF Given(p.board) /\ ValueOf(p.board) \notin BoardIds
    THEN [result |-> "NotFound", key |-> ""]
    ELSE IF method # "PATCH" /\ ~Given(p.board)
    THEN [result |-> "ValidationError", key |-> "board"]
    ELSE IF method # "PATCH" /\ ~Given(p.status)
    THEN [result |-> "ValidationError", key |-> "status"]
    ELSE IF method # "PATCH" /\ ~Given(p.priority)
    THEN [result |-> "ValidationError", key |-> "priority"]
    ELSE [result |-> "ok", key |-> ""]

\* A membership check that does not filter by the board asked for.
EnsureUserIsMemberOfSomeBoard(u, b) == \E x \in BoardIds : IsBoardMember(u, x)

\* TaskReadSerializer.get_status(obj), for a task row: "" without a column,
\* else mapping.get(column.status, "").lower().
GetStatus(row) ==
    IF row.column = NoId THEN ""
    ELSE LET st == columns[row.column].status IN
         IF st \in DOMAIN StatusMapping THEN Lower(StatusMapping[st]) ELSE ""

\* TaskViewSet._ensure_user_is_board_member(board)
EnsureUserIsBoardMember(u, b) == IsBoardMember(u, b)

\* TaskViewSet.create up to the row TaskWriteSerializer.create inserts:
\* is_valid, the membership check, then status -> column, priority -> enum.
TaskCreateOutcome(u, p) ==
    LET v == TaskValidation("POST", p) IN
    IF v.result # "ok" THEN [result |-> v.result, key |-> v.key, row |-> <<>>]
    ELSE LET b == ValueOf(p.board) IN
    IF ~EnsureUserIsBoardMember(u, b)
    THEN [result |-> "PermissionDenied", key |-> "", row |-> <<>>]
    ELSE LET col == ColumnForStatus(b, ValueOf(p.status)) IN
    IF col.result # "ok" THEN [result |-> col.result, key |-> col.key, row |-> <<>>]
    ELSE LET prio == MapPriorityLabel(ValueOf(p.priority)) IN
    IF prio.result # "ok" THEN [result |-> prio.result, key |-> prio.key, row |-> <<>>]
    ELSE [result |-> "created", key |-> "",
          row |-> [board |-> b, column |-> col.column, priority |-> prio.priority,
                   assignee |-> IF Given(p.assignee) THEN ValueOf(p.assignee) ELSE NoId,
                   reviewer |-> IF Given(p.reviewer) THEN ValueOf(p.reviewer) ELSE NoId,
                   created_by |-> u,
                   due_date |-> IF Given(p.due_date) THEN ValueOf(p.due_date) ELSE NoDate,
                   completed_at |-> NoDate]]

\* POST /api/tasks/
TaskCreate(u, p) ==
    LET c == TaskCreateOutcome(u, p)
        o == [result |-> c.result, key |-> c.key, row |-> c.row,
              id |-> IF Given(p.board) /\ ValueOf(p.board) \in BoardIds
                     THEN ValueOf(p.board) ELSE NoId]
    IN
    /\ Receive
    /\ IF o.result = "created"
       THEN /\ nextId.task \in TaskKeys
            /\ tasks' = Put(tasks, nextId.task, o.row)
            /\ nextId' = [nextId EXCEPT !.task = @ + 1]
       ELSE UNCHANGED <<tasks, nextId>>
    /\ last' = Response("task_create", u, o.id, o.result, o.key)
    /\ UNCHANGED <<boards, columns, comments, columnWrites, creating, accounts, registering>>

\* TaskViewSet.get_object
TaskAccess(u, t, method) ==
    IF t \notin TaskIds THEN "NotFound"
    ELSE IF ~TaskPermissions(u, t, method) THEN "PermissionDenied"
    ELSE "ok"

\* TaskViewSet.update with TaskWriteSerializer.update: get_object, is_valid,
\* then board is popped, status -> column of the task's own board,
\* priority -> enum, and the fields given are written.
TaskUpdateOutcome(u, t, method, p) ==
    LET a == TaskAccess(u, t, method) IN
    IF a # "ok" THEN [result |-> a, key |-> "", row |-> <<>>]
    ELSE LET v == TaskValidation(method, p) IN
    IF v.result # "ok" THEN [result |-> v.result, key |-> v.key, row |-> <<>>]
    ELSE LET old == tasks[t]
             col == IF Given(p.status) THEN ColumnForStatus(old.board, ValueOf(p.status))
                    ELSE [result |-> "ok", key |-> "", column |-> old.column]
    IN
    IF col.result # "ok" THEN [result |-> col.result, key |-> col.key, row |-> <<>>]
    ELSE LET prio == IF Given(p.priority) THEN MapPriorityLabel(ValueOf(p.priority))
                     ELSE [result |-> "ok", key |-> "", priority |-> old.priority]
    IN
    IF prio.result # "ok" THEN [result |-> prio.result, key |-> prio.key, row |-> <<>>]
    ELSE [result |-> "ok", key |-> "",
          row |-> [board |-> old.board, column |-> col.column, priority |-> prio.priority,
                   assignee |-> IF Given(p.assignee) THEN ValueOf(p.assignee) ELSE old.assignee,
                   reviewer |-> IF Given(p.reviewer) THEN ValueOf(p.reviewer) ELSE old.reviewer,
                   created_by |-> old.created_by,
                   due_date |-> IF Given(p.due_date) THEN ValueOf(p.due_date) ELSE old.due_date,
                   completed_at |-> old.completed_at]]

\* PUT or PATCH /api/tasks/{id}/
TaskUpdate(u, t, method, p) ==
    LET o == TaskUpdateOutcome(u, t, method, p) IN
    /\ Receive
    /\ tasks' = IF o.result = "ok" THEN [tasks EXCEPT ![t] = o.row] ELSE tasks
    /\ last' = Response("task_update", u, IF t \in TaskIds THEN t ELSE NoId, o.result, o.key)
    /\ UNCHANGED <<boards, columns, comments, nextId, columnWrites, creating,
                   accounts, registering>>

\* DELETE /api/tasks/{id}/: get_object, then destroy with the cascade.
TaskDelete(u, t) ==
    LET a == TaskAccess(u, t, "DELETE") IN
    /\ Receive
    /\ tasks' = IF a = "ok" THEN Drop(tasks, {t}) ELSE tasks
    /\ comments' = IF a = "ok" THEN CascadeComments({t}) ELSE comments
    /\ last' = Response("task_delete", u, IF t \in TaskIds THEN t ELSE NoId,
                        IF a = "ok" THEN "no_content" ELSE a, "")
    /\ UNCHANGED <<boards, columns, nextId, columnWrites, creating, accounts, registering>>

\* ------------------------------------------------------------ comments
\* TaskCommentsListCreateView.get_task
CommentTaskAccess(u, t) ==
    IF t \notin TaskIds THEN "NotFound"
    ELSE IF ~IsBoardMember(u, tasks[t].board) THEN "PermissionDenied"
    ELSE "ok"

\* GET /api/tasks/{task_id}/comments/: get_queryset, a pure read.
CommentList(u, t) ==
    /\ Receive
    /\ last' = Response("comment_list", u, IF t \in TaskIds THEN t ELSE NoId,
                        CommentTaskAccess(u, t), "")
    /\ UNCHANGED <<boards, columns, tasks, comments, nextId, columnWrites, creating,
                   accounts, registering>>

\* The body of a comment POST: content (present and not blank, or not), and
\* author and task values a client may add.
CommentPayloads ==
    [content : BOOLEAN, author : Optional(Users), task : Optional(TaskKeys)]

\* CommentSerializer: content is the one writable field (author is a
\* read-only method field, task is no field); the validated data.
CommentValidatedData(p) == [content |-> p.content]

\* A serializer whose author field is writable: the body's author wins.
CommentRowAuthorFromBody(u, t, p) ==
    [task |-> t, author |-> IF Given(p.author) THEN ValueOf(p.author) ELSE u]

\* serializer.save(task=task, author=self.request.user): the row inserted.
CommentRow(u, t, p) == [task |-> t, author |-> u]

\* CreateModelMixin.create: is_valid, then perform_create (get_task, save).
CommentCreateOutcome(u, t, p) ==
    IF ~CommentValidatedData(p).content
    THEN [result |-> "ValidationError", key |-> "content", row |-> <<>>]
    ELSE LET a == CommentTaskAccess(u, t) IN
    IF a # "ok" THEN [result |-> a, key |-> "", row |-> <<>>]
    ELSE [result |-> "created", key |-> "", row |-> CommentRow(u, t, p)]

\* POST /api/tasks/{task_id}/comments/
CommentCreate(u, t, p) ==
    LET o == CommentCreateOutcome(u, t, p) IN
    /\ Receive
    /\ IF o.result = "created"
       THEN /\ nextId.comment \in CommentKeys
            /\ comments' = Put(comments, nextId.comment, o.row)
            /\ nextId' = [nextId EXCEPT !.comment = @ + 1]
       ELSE UNCHANGED <<comments, nextId>>
    /\ last' = Response("comment_create", u, IF t \in TaskIds THEN t ELSE NoId,
                        o.result, o.key)
    /\ UNCHANGED <<boards, columns, tasks, columnWrites, creating, accounts, registering>>

\* A destroy that also lets the owner of the comment's board delete it.
CommentDeleteOutcomeOwnerToo(u, t, a) ==
    IF a \notin CommentIds \/ comments[a].task # t THEN "NotFound"
    ELSE IF comments[a].author # u /\ boards[tasks[t].board].owner # u THEN "PermissionDenied"
    ELSE "no_content"

\* DELETE /api/tasks/{task_id}/comments/{comment_id}/: get_object over the
\* task's comments, then perform_destroy.
CommentDeleteOutcome(u, t, a) ==
    IF a \notin CommentIds \/ comments[a].task # t THEN "NotFound"
    ELSE IF comments[a].author # u THEN "PermissionDenied"
    ELSE "no_content"

CommentDelete(u, t, a) ==
    LET r == CommentDeleteOutcome(u, t, a) IN
    /\ Receive
    /\ comments' = IF r = "no_content" THEN Drop(comments, {a}) ELSE comments
    /\ last' = Response("comment_delete", u, IF r = "NotFound" THEN NoId ELSE a, r, "")
    /\ UNCHANGED <<boards, columns, tasks, nextId, columnWrites, creating, accounts, registering>>

\* ---------------------------------------------------------- task reads
\* The response of a read that returns tasks: the keys of the tasks in it.
TaskRead(op, u, id, result, returned) ==
    [op |-> op, user |-> u, id |-> id, result |-> result, key |-> "",
     tasks |-> IF result = "ok" THEN returned ELSE {}]

\* TaskViewSet.get_queryset for list: Q(board__owner=user) | Q(board__members=user)
TaskListQueryset(u) ==
    {t \in TaskIds : \/ boards[tasks[t].board].owner = u
                     \/ u \in boards[tasks[t].board].members}

\* AssignedToMeTasksView.get_queryset: Task.objects.filter(assignee=user)
AssignedToMeQueryset(u) == {t \in TaskIds : tasks[t].assignee = u}

\* ReviewingTasksView.get_queryset: Task.objects.filter(reviewer=user)
ReviewingQueryset(u) == {t \in TaskIds : tasks[t].reviewer = u}

\* BoardDetailSerializer.tasks: the tasks of the board retrieved
BoardDetailTasks(b) == IF b \in BoardIds THEN TasksOf(b) ELSE {}

\* A list view: check_permissions (IsAuthenticated), then the queryset.
ListAccess(u) == IF ~IsAuthenticated(u) THEN "NotAuthenticated" ELSE "ok"

\* GET /api/tasks/
TaskList(u) ==
    /\ Receive
    /\ last' = TaskRead("task_list", u, NoId, ListAccess(u), TaskListQueryset(u))
    /\ UNCHANGED <<boards, columns, tasks, comments, nextId, columnWrites, creating,
                   accounts, registering>>

\* GET /api/tasks/{id}/: check_permissions, then TaskViewSet.get_object
TaskRetrieve(u, t) ==
    LET a == IF ~IsAuthenticated(u) THEN "NotAuthenticated" ELSE TaskAccess(u, t, "GET") IN
    /\ Receive
    /\ last' = TaskRead("task_retrieve", u, IF t \in TaskIds THEN t ELSE NoId, a, {t})
    /\ UNCHANGED <<boards, columns, tasks, comments, nextId, columnWrites, creating,
                   accounts, registering>>

\* GET /api/tasks/assigned-to-me/
AssignedToMe(u) ==
    /\ Receive
    /\ last' = TaskRead("assigned_to_me", u, NoId, ListAccess(u), AssignedToMeQueryset(u))
    /\ UNCHANGED <<boards, columns, tasks, comments, nextId, columnWrites, creating,
                   accounts, registering>>

\* GET /api/tasks/reviewing/
Reviewing(u) ==
    /\ Receive
    /\ last' = TaskRead("reviewing", u, NoId, ListAccess(u), ReviewingQueryset(u))
    /\ UNCHANGED <<boards, columns, tasks, comments, nextId, columnWrites, creating,
                   accounts, registering>>

\* -------------------------------------------------------- registration
\* The registration requests in flight at once, and the accounts they create.
MaxRegistrations == 2
MaxAccounts == 3
Registrations == 1..MaxRegistrations

IdleRegistration == [pc |-> "idle", email |-> <<>>, username |-> <<>>]
NoRegistrations == [r \in Registrations |-> IdleRegistration]

\* The accounts of Users, as RegistrationSerializer.create stores them.
UserAccounts ==
    [u \in Users |-> [email |-> <<"u", ToString(u), "@", "x">>,
                      username |-> <<"u", ToString(u)>>]]

\* Request bodies: emails as character sequences (<<>> is a blank or missing
\* email), and passwords that pass validate_password.
EmailInputs == {<<>>, <<"a", "@", "x">>, <<"A", "@", "x">>, <<"b", "@", "x">>}
PasswordInputs == {"pw1", "pw2"}
RegistrationPayloads ==
    [email : EmailInputs, password : PasswordInputs, repeated_password : PasswordInputs]

\* The case folding of the iexact lookup.
LowerChar(c) ==
    CASE c = "A" -> "a"
      [] c = "B" -> "b"
      [] c = "X" -> "x"
      [] OTHER -> c
LowerCase(str) == [i \in DOMAIN str |-> LowerChar(str[i])]

\* User.objects.filter(email__iexact=email).exists()
EmailExists(email) ==
    \E a \in DOMAIN accounts : LowerCase(accounts[a].email) = LowerCase(email)

\* RegistrationSerializer.validate: the key of the ValidationError, "" when valid
RegistrationValidate(p) ==
    IF p.password # p.repeated_password THEN "password"
    ELSE IF p.email = <<>> THEN "email"
    ELSE IF EmailExists(p.email) THEN "email"
    ELSE ""

\* email.split("@")[0] if email else "user"
BaseUsername(email) ==
    IF email = <<>> THEN <<"u", "s", "e", "r">>
    ELSE LET ats == {i \in DOMAIN email : email[i] = "@"}
         IN  IF ats = {} THEN email
             ELSE SubSeq(email, 1, (CHOOSE i \in ats : \A j \in ats : i =< j) - 1)

\* User.objects.filter(username=username).exists()
UsernameExists(username) == \E a \in DOMAIN accounts : accounts[a].username = username

\* f"{base_username}{counter}", the base itself before the first round
UsernameCandidate(base, counter) ==
    IF counter = 0 THEN base ELSE Append(base, ToString(counter))

\* RegistrationSerializer.create: the while loop over the candidates
FreeUsername(base) ==
    LET n == Cardinality(DOMAIN accounts)
        k == CHOOSE k \in 0..n :
                 /\ ~UsernameExists(UsernameCandidate(base, k))
                 /\ \A j \in 0..(k - 1) : UsernameExists(UsernameCandidate(base, j))
    IN  UsernameCandidate(base, k)

\* POST /api/registration/: serializer.is_valid(raise_exception=True)
RegistrationIsValid(r, p) ==
    LET key == RegistrationValidate(p)
        inFlight == {q \in Registrations : registering[q].pc # "idle"}
    IN  /\ registering[r].pc = "idle"
        /\ Cardinality(DOMAIN accounts) + Cardinality(inFlight) < MaxAccounts
        /\ IF key # ""
           THEN /\ last' = Response("registration", NoId, NoId, "ValidationError", key)
                /\ UNCHANGED registering
           ELSE /\ registering' = [registering EXCEPT
                                      ![r] = [pc |-> "create", email |-> p.email,
                                              username |-> <<>>]]
                /\ UNCHANGED last
        /\ UNCHANGED <<boards, columns, tasks, comments, nextId, served, columnWrites,
                       creating, accounts>>

\* serializer.save(), first part: RegistrationSerializer.create picks the username
RegistrationCreate(r) ==
    /\ registering[r].pc = "create"
    /\ registering' = [registering EXCEPT
                          ![r].pc = "save",
                          ![r].username = FreeUsername(BaseUsername(registering[r].email))]
    /\ UNCHANGED <<boards, columns, tasks, comments, nextId, served, columnWrites,
                   creating, accounts, last>>

\* serializer.save(), second part: user.save() inserts the row; the unique
\* constraint of auth_user.username is the only one the insert can break.
RegistrationSave(r) ==
    LET id == Cardinality(DOMAIN accounts) + 1
        row == [email |-> registering[r].email, username |-> registering[r].username]
    IN  /\ registering[r].pc = "save"
        /\ IF UsernameExists(row.username)
           THEN /\ last' = Response("registration", NoId, NoId, "IntegrityError", "username")
                /\ UNCHANGED accounts
           ELSE /\ accounts' = Put(accounts, id, row)
                /\ last' = Response("registration", NoId, id, "created", "")
        /\ registering' = [registering EXCEPT ![r] = IdleRegistration]
        /\ UNCHANGED <<boards, columns, tasks, comments, nextId, served, columnWrites,
                       creating>>

\* ----------------------------------------------------------- dashboard
\* timedelta(days=7) and timedelta(days=14) of DashboardStatsView.
UrgentDays == 7
DoneDays == 14

\* DashboardStatsView._get_boards_count: Board.objects.filter(members=user)
BoardsMemberOf(u) == {b \in BoardIds : u \in boards[b].members}

\* DashboardStatsView._get_my_tasks_qs: assignee=user, board__members=user
MyTasks(u) ==
    {t \in TaskIds : tasks[t].assignee = u /\ u \in boards[tasks[t].board].members}

\* A range lookup that leaves out its upper end.
DateInHalfOpenRange(d, lo, hi) == d # NoDate /\ lo =< d /\ d < hi

\* due_date__range=(lo, hi): SQL BETWEEN, both ends included; NULL never matches.
DateInRange(d, lo, hi) == d # NoDate /\ lo =< d /\ d =< hi

\* DashboardStatsView._get_urgent_tasks_count
UrgentTasks(u, today) ==
    {t \in MyTasks(u) :
        /\ tasks[t].column # NoId
        /\ columns[tasks[t].column].status = "TODO"
        /\ tasks[t].priority \in {"HIGH", "CRITICAL"}
        /\ DateInRange(tasks[t].due_date, today, today + UrgentDays)}

\* DashboardStatsView._get_done_recent_count: completed_at__gte=two_weeks_ago
DoneRecentTasks(u, today) ==
    {t \in MyTasks(u) :
        /\ tasks[t].column # NoId
        /\ columns[tasks[t].column].status = "DONE"
        /\ tasks[t].completed_at # NoDate
        /\ tasks[t].completed_at >= today - DoneDays}

\* GET /api/dashboard/stats/ on day today: DashboardStatsView.get
DashboardStats(u, today) ==
    /\ last' = IF ~IsAuthenticated(u)
               THEN [op |-> "dashboard", user |-> u, id |-> NoId,
                     result |-> "NotAuthenticated", key |-> "", today |-> today]
               ELSE
               [op |-> "dashboard", user |-> u, id |-> NoId, result |-> "ok", key |-> "",
                today |-> today,
                data |-> [boards_member_of |-> Cardinality(BoardsMemberOf(u)),
                          tasks_assigned_to_me |-> Cardinality(MyTasks(u)),
                          urgent_tasks_count |-> Cardinality(UrgentTasks(u, today)),
                          done_last_14_days |-> Cardinality(DoneRecentTasks(u, today))]]
    /\ UNCHANGED <<boards, columns, tasks, comments, nextId, served, columnWrites, creating,
                   accounts, registering>>

Init ==
    /\ boards = <<>>
    /\ columns = <<>>
    /\ tasks = <<>>
    /\ comments = <<>>
    /\ nextId = [board |-> 1, column |-> 1, task |-> 1, comment |-> 1]
    /\ served = 0
    /\ columnWrites = 0
    /\ creating = NoRequest
    /\ accounts = UserAccounts
    /\ registering = NoRegistrations
    /\ last = Response("none", NoId, NoId, "none", "")

BoardRequests ==
    \/ \E u \in Callers, b \in BoardKeys : BoardRetrieve(u, b)
    \/ \E u \in Callers, b \in BoardKeys :
          \E m \in IF BoardAccess(u, b, "PATCH") = "ok"
                    THEN Optional(SUBSET Users) ELSE {{}} :
             BoardUpdate(u, b, m)
    \/ \E u \in Callers, b \in BoardKeys : BoardDelete(u, b)

ColumnRequests ==
    \/ \E u \in Users, p \in ColumnPayloads : ColumnCreate(u, p)
    \/ \E u \in Users, c \in ColumnKeys :
          \E p \in IF ColumnVisible(u, c) THEN ColumnPayloads ELSE {NoColumnPayload} :
             ColumnUpdate(u, c, p)
    \/ \E u \in Users, c \in ColumnKeys : ColumnDelete(u, c)

TaskRequests ==
    \/ \E u \in Users, b \in Optional(BoardKeys) :
          \E p \in IF b \subseteq BoardIds /\ Given(b)
                    THEN {q \in TaskPayloads : q.board = b}
                    ELSE {[NoPayload EXCEPT !.board = b]} :
             TaskCreate(u, p)
    \/ \E u \in Users, t \in TaskKeys, method \in {"PUT", "PATCH"} :
          \E p \in IF TaskAccess(u, t, method) = "ok" THEN TaskPayloads ELSE {NoPayload} :
             TaskUpdate(u, t, method, p)
    \/ \E u \in Users, t \in TaskKeys : TaskDelete(u, t)

CommentRequests ==
    \/ \E u \in Users, t \in TaskKeys : CommentList(u, t)
    \/ \E u \in Users, t \in TaskKeys, p \in CommentPayloads : CommentCreate(u, t, p)
    \/ \E u \in Users, t \in TaskKeys, a \in CommentKeys : CommentDelete(u, t, a)

Next ==
    \/ \E u \in Users : BoardCreate(u)
    \/ BoardRequests
    \/ ColumnRequests
    \/ TaskRequests
    \/ CommentRequests

Spec == Init /\ [][Next]_vars

BoardCreateStatements ==
    \/ \E u \in Users : BoardCreateSave(u)
    \/ BoardCreateAddMember
    \/ BoardCreateColumn
    \/ BoardCreateFail

StatementNext == BoardCreateStatements \/ BoardRequests

StatementSpec == Init /\ [][StatementNext]_vars

\* A store the requests of Spec reach: one board with its default columns, any
\* owner and member set, and one task in its TODO column.
CommentInit ==
    \E o \in Users, ms \in SUBSET Users, cr \in Users :
        /\ boards = Put(<<>>, 1, [owner |-> o, members |-> ms])
        /\ columns = [c \in 1..Len(DefaultColumns) |-> DefaultColumn(1, c)]
        /\ tasks = Put(<<>>, 1, [board |-> 1, column |-> 1, priority |-> "HIGH",
                                 assignee |-> NoId, reviewer |-> NoId, created_by |-> cr,
                                 due_date |-> NoDate, completed_at |-> NoDate])
        /\ comments = <<>>
        /\ nextId = [board |-> 2, column |-> Len(DefaultColumns) + 1, task |-> 2, comment |-> 1]
        /\ served = 0
        /\ columnWrites = 0
        /\ creating = NoRequest
        /\ accounts = UserAccounts
        /\ registering = NoRegistrations
        /\ last = Response("none", NoId, NoId, "none", "")

CommentNext ==
    \/ CommentRequests
    \/ \E u \in Users, b \in BoardKeys, m \in Optional(SUBSET Users) : BoardUpdate(u, b, m)
    \/ \E u \in Users, t \in TaskKeys : TaskDelete(u, t)

CommentSpec == CommentInit /\ [][CommentNext]_vars

\* The day of the dashboard requests, and the due dates around its window.
SnapshotToday == NoDate + 2
SnapshotDueDates ==
    {NoDate, SnapshotToday - 1, SnapshotToday, SnapshotToday + UrgentDays,
     SnapshotToday + UrgentDays + 1}
SnapshotTasks == 1..(MaxTasks + 1)

\* Stores the requests reach: one board of user 1 with its default columns and
\* any member set, and tasks in its TODO or DONE column with any assignee,
\* priority and due date.
SnapshotInit ==
    \E ms \in SUBSET Users :
    \E rows \in [SnapshotTasks ->
                    [board : {1}, column : {1, Len(DefaultColumns)},
                     priority : {"LOW", "HIGH", "CRITICAL"},
                     assignee : Users, reviewer : {NoId}, created_by : {1},
                     due_date : SnapshotDueDates, completed_at : {NoDate}]] :
        /\ boards = Put(<<>>, 1, [owner |-> 1, members |-> ms])
        /\ columns = [c \in 1..Len(DefaultColumns) |-> DefaultColumn(1, c)]
        /\ tasks = rows
        /\ comments = <<>>
        /\ nextId = [board |-> 2, column |-> Len(DefaultColumns) + 1,
                     task |-> MaxTasks + 2, comment |-> 1]
        /\ served = 0
        /\ columnWrites = 0
        /\ creating = NoRequest
        /\ accounts = UserAccounts
        /\ registering = NoRegistrations
        /\ last = Response("none", NoId, NoId, "none", "")

SnapshotNext == \E u \in Callers : DashboardStats(u, SnapshotToday)

SnapshotSpec == SnapshotInit /\ [][SnapshotNext]_vars

\* An empty database.
RegistrationInit ==
    /\ boards = <<>>
    /\ columns = <<>>
    /\ tasks = <<>>
    /\ comments = <<>>
    /\ nextId = [board |-> 1, column |-> 1, task |-> 1, comment |-> 1]
    /\ served = 0
    /\ columnWrites = 0
    /\ creating = NoRequest
    /\ accounts = <<>>
    /\ registering = NoRegistrations
    /\ last = Response("none", NoId, NoId, "none", "")

\* Each request takes its steps on its own; the requests interleave.
RegistrationNext ==
    \E r \in Registrations :
        \/ \E p \in RegistrationPayloads : RegistrationIsValid(r, p)
        \/ RegistrationCreate(r)
        \/ RegistrationSave(r)

RegistrationSpec == RegistrationInit /\ [][RegistrationNext]_vars

\* PATCH bodies that set the assignee or the reviewer and nothing else.
AssignmentPayloads ==
    {p \in TaskPayloads : ~Given(p.board) /\ ~Given(p.status) /\ ~Given(p.priority)}

\* The reads that return tasks, between the requests that change who is on
\* the board and who is assigned, from the stores of CommentInit.
ReadNext ==
    \/ \E u \in Callers : TaskList(u)
    \/ \E u \in Callers, t \in TaskKeys : TaskRetrieve(u, t)
    \/ \E u \in Callers : AssignedToMe(u)
    \/ \E u \in Callers : Reviewing(u)
    \/ \E u \in Callers, b \in BoardKeys : BoardRetrieve(u, b)
    \/ \E u \in Users, b \in BoardKeys, m \in Optional(SUBSET Users) : BoardUpdate(u, b, m)
    \/ \E u \in Users, t \in TaskKeys :
          \E p \in IF TaskAccess(u, t, "PATCH") = "ok" THEN AssignmentPayloads
                    ELSE {NoPayload} :
             TaskUpdate(u, t, "PATCH", p)

ReadSpec == CommentInit /\ [][ReadNext]_vars

\* ---------------------------------------------------------------- claims
Succeeded(r) == r.result \in {"ok", "created", "no_content"}

\* C1: a task update (PUT or PATCH) is carried out only when the caller is
\* the owner of the task's board, the task's assignee or its reviewer; any
\* other caller is refused with the task left unchanged.
C1_UpdateOnlyByOwnerAssigneeReviewer ==
    [][(last'.op = "task_update" /\ last'.id \in TaskIds) =>
        LET t == last'.id
            u == last'.user
        IN  \/ boards[tasks[t].board].owner = u
            \/ tasks[t].assignee = u
            \/ tasks[t].reviewer = u
            \/ (last'.result = "PermissionDenied" /\ tasks' = tasks)]_vars

\* C2: deleting a task succeeds only for the owner of the task's board or
\* the task's created_by; every other caller gets PermissionDenied and the
\* task and its comments still exist afterwards.
C2_DeleteOnlyByOwnerOrCreator ==
    [][(last'.op = "task_delete" /\ last'.id \in TaskIds) =>
        LET t == last'.id
            u == last'.user
        IN  \/ boards[tasks[t].board].owner = u
            \/ tasks[t].created_by = u
            \/ /\ last'.result = "PermissionDenied"
               /\ tasks' = tasks
               /\ comments' = comments]_vars

\* A caller who is the task's assignee, but neither its creator nor the
\* board's owner, was refused the delete of a task that has a comment.
C2_Witness ==
    /\ last.op = "task_delete"
    /\ last.result = "PermissionDenied"
    /\ last.id \in TaskIds
    /\ tasks[last.id].assignee = last.user
    /\ tasks[last.id].created_by # last.user
    /\ CommentsOf(last.id) # {}

\* C3: every existing board has exactly 4 columns, one per status.
C3_FourColumnsOnePerStatus ==
    \A b \in BoardIds :
        /\ Cardinality(ColumnsOf(b)) = 4
        /\ \A st \in Statuses : Cardinality(ColumnsWithStatus(b, st)) = 1

\* C4: immediately after a successful board creation by user U the board has
\* owner U, U among its members, and exactly four columns whose
\* (status, position) pairs are (TODO,1), (IN_PROGRESS,2), (REVIEW,3), (DONE,4).
C4_BoardCreationResult ==
    (last.op = "board_create" /\ last.result = "created") =>
        LET b == last.id IN
        /\ b \in BoardIds
        /\ boards[b].owner = last.user
        /\ last.user \in boards[b].members
        /\ Cardinality(ColumnsOf(b)) = 4
        /\ {<<columns[c].status, columns[c].position>> : c \in ColumnsOf(b)}
             = {<<"TODO", 1>>, <<"IN_PROGRESS", 2>>, <<"REVIEW", 3>>, <<"DONE", 4>>}

\* A second board has just been created, by the user who does not own the
\* first one.
C4_Witness ==
    /\ last.op = "board_create"
    /\ last.result = "created"
    /\ Cardinality(BoardIds) = 2
    /\ \E b \in BoardIds : boards[b].owner # last.user

\* C5: board creation is atomic: while it runs, and after it failed, no
\* state shows the board without its owner as a member or with fewer than 4
\* columns, and a failed creation leaves no board and no columns behind.
C5_BoardCreationAtomic ==
    /\ (creating # NoRequest /\ creating.board \in BoardIds) =>
          /\ boards[creating.board].owner \in boards[creating.board].members
          /\ Cardinality(ColumnsOf(creating.board)) >= 4
    /\ (last.op = "board_create" /\ last.result = "ServerError") =>
          /\ last.id \notin BoardIds
          /\ ColumnsOf(last.id) = {}

\* C6: a board value in an update payload (the same board, another board, or
\* a key that names no board) is ignored: the update is processed as the same
\* payload without it, and the task's board stays what it was.
C6_BoardValueIgnored ==
    \A u \in Users, t \in TaskIds, p \in TaskPayloads :
        Given(p.board) =>
            LET with == TaskUpdateOutcome(u, t, "PATCH", p)
                without == TaskUpdateOutcome(u, t, "PATCH", [p EXCEPT !.board = {}])
            IN  /\ with = without
                /\ with.result = "ok" => with.row.board = tasks[t].board

\* C7: a task create or update that supplies a status label, and is not
\* refused for access or for another field, either succeeds or fails with a
\* ValidationError keyed "status"; no other failure kind occurs.
C7_StatusOutcomes ==
    (/\ last.op \in {"task_create", "task_update"}
     /\ last.result \notin {"NotFound", "PermissionDenied"}
     /\ ~(last.result = "ValidationError" /\ last.key \in {"board", "priority"})) =>
        \/ Succeeded(last)
        \/ (last.result = "ValidationError" /\ last.key = "status")

C9_AssigneeMayPatch ==
    \A t \in TaskIds :
        LET u == tasks[t].assignee IN
        u # NoId =>
            /\ TaskAccess(u, t, "PATCH") = "ok"
            /\ TaskAccess(u, t, "DELETE") = "ok" =>
                  \/ tasks[t].created_by = u
                  \/ boards[tasks[t].board].owner = u

\* C10: deleting a board succeeds only for its owner; any other
\* authenticated caller (a member included) gets 403, and every other caller
\* leaves the board, its columns, tasks and comments unchanged; after a
\* successful delete no column, task or comment that belonged to the board
\* remains.
C10_BoardDeleteByOwnerCascades ==
    [][(last'.op = "board_delete" /\ last'.id \in BoardIds) =>
        LET b == last'.id IN
        IF boards[b].owner = last'.user
        THEN last'.result = "no_content" =>
                /\ b \notin DOMAIN boards'
                /\ ColumnsOf(b) \cap DOMAIN columns' = {}
                /\ TasksOf(b) \cap DOMAIN tasks' = {}
                /\ \A t \in TasksOf(b) : CommentsOf(t) \cap DOMAIN comments' = {}
        ELSE /\ last'.user \in Users => last'.result = "PermissionDenied"
             /\ ~Succeeded(last')
             /\ boards' = boards
             /\ columns' = columns
             /\ tasks' = tasks
             /\ comments' = comments]_vars

\* A member who is not the owner was refused the delete of a board that
\* holds a task.
C10_Witness ==
    /\ last.op = "board_delete"
    /\ last.result = "PermissionDenied"
    /\ last.id \in BoardIds
    /\ last.user \in boards[last.id].members
    /\ TasksOf(last.id) # {}

\* C11: retrieve, update and delete of a board by id answer 401 to an
\* unauthenticated caller, 404 to an authenticated caller when the id names
\* no board, and 403 to an authenticated caller who is neither owner nor
\* member of the board, which stays unchanged; the operation is carried out
\* only for an owner or member.
C11_BoardAccessOutcomes ==
    [][last'.op \in {"board_retrieve", "board_update", "board_delete"} =>
        LET u == last'.user
            b == last'.id
            code == StatusCode(last'.result)
            same == /\ boards' = boards
                    /\ columns' = columns
                    /\ tasks' = tasks
                    /\ comments' = comments
        IN  /\ u = NoId => (code = 401 /\ same)
            /\ (u # NoId /\ b = NoId) => (code = 404 /\ same)
            /\ (u # NoId /\ b \in BoardIds /\ ~IsBoardMember(u, b)) => (code = 403 /\ same)
            /\ Succeeded(last') => (u # NoId /\ b \in BoardIds /\ IsBoardMember(u, b))]_vars

\* An authenticated caller who is neither owner nor member of an existing
\* board was refused its update.
C11_Witness ==
    /\ last.op = "board_update"
    /\ last.result = "PermissionDenied"
    /\ last.user \in Users
    /\ last.id \in BoardIds
    /\ ~IsBoardMember(last.user, last.id)

\* C12: a column request is carried out only when the caller is owner or
\* member of every board involved (the column's board before and after); a
\* caller who is neither owner nor member of a board never causes a column of
\* that board to be created, changed or removed.
C12_ColumnsScopedToCallersBoards ==
    [][(last'.op \in {"column_create", "column_update", "column_delete"} /\ Succeeded(last')) =>
        LET u == last'.user
            c == last'.id
        IN  /\ c \in ColumnIds => IsBoardMember(u, columns[c].board)
            /\ c \in DOMAIN columns' => IsBoardMember(u, columns'[c].board)
            /\ \A b \in BoardIds :
                  ~IsBoardMember(u, b) =>
                      /\ {x \in DOMAIN columns' : columns'[x].board = b} = ColumnsOf(b)
                      /\ \A x \in ColumnsOf(b) : columns'[x] = columns[x]]_vars

\* C13: a delete request for a comment by a caller who is not its author
\* (the owner of the comment's board included) fails with PermissionDenied and
\* the comment still exists; a delete by the author removes exactly that
\* comment and no other.
C13_CommentDeleteOnlyByAuthor ==
    [][(last'.op = "comment_delete" /\ last'.id \in CommentIds) =>
        LET a == last'.id IN
        IF comments[a].author = last'.user
        THEN /\ last'.result = "no_content"
             /\ comments' = Drop(comments, {a})
        ELSE /\ last'.result = "PermissionDenied"
             /\ comments' = comments]_vars

\* The owner of the board was refused the delete of a comment written by
\* another user.
C13_Witness ==
    /\ last.op = "comment_delete"
    /\ last.result = "PermissionDenied"
    /\ last.id \in CommentIds
    /\ boards[tasks[comments[last.id].task].board].owner = last.user

\* C14, as claimed: listing or creating comments by a caller who is neither
\* owner nor member of the task's board fails with PermissionDenied, on a task
\* that does not exist with NotFound, and creates no comment.
C14_NonMemberGetsPermissionDenied ==
    [][last'.op \in {"comment_list", "comment_create"} =>
        /\ last'.id = NoId => (last'.result = "NotFound" /\ comments' = comments)
        /\ (last'.id \in TaskIds /\ ~IsBoardMember(last'.user, tasks[last'.id].board)) =>
              (last'.result = "PermissionDenied" /\ comments' = comments)]_vars

\* C14, amended: a comment POST whose body lacks content fails with a
\* ValidationError keyed "content" before the task is looked up; otherwise,
\* and for every listing, a task that does not exist gives NotFound and a
\* caller who is neither owner nor member of the task's board gets
\* PermissionDenied; none of these creates a comment. Every comment created
\* has author equal to the caller and task equal to the task in the URL,
\* whatever author or task values the body carries.
C14_CommentsScopedToBoard ==
    [][last'.op \in {"comment_list", "comment_create"} =>
        LET u == last'.user
            expected(t) == IF t \notin TaskIds THEN "NotFound"
                           ELSE IF ~IsBoardMember(u, tasks[t].board) THEN "PermissionDenied"
                           ELSE "created"
        IN  /\ last'.op = "comment_list" =>
                /\ comments' = comments
                /\ last'.id = NoId => last'.result = "NotFound"
                /\ (last'.id \in TaskIds /\ ~IsBoardMember(u, tasks[last'.id].board)) =>
                      last'.result = "PermissionDenied"
            /\ last'.op = "comment_create" =>
                /\ \A t \in TaskKeys, p \in CommentPayloads :
                      LET o == CommentCreateOutcome(u, t, p) IN
                      /\ o.result = IF p.content THEN expected(t) ELSE "ValidationError"
                      /\ o.result = "created" => o.row = [task |-> t, author |-> u]
                /\ IF last'.result = "created"
                   THEN /\ nextId.comment \notin CommentIds
                        /\ comments' = Put(comments, nextId.comment,
                                           [task |-> last'.id, author |-> u])
                        /\ IsBoardMember(u, tasks[last'.id].board)
                   ELSE comments' = comments]_vars

\* A comment was created by a member of the board who is not its owner.
C14_Witness ==
    /\ last.op = "comment_create"
    /\ last.result = "created"
    /\ last.id \in TaskIds
    /\ last.user \in boards[tasks[last.id].board].members
    /\ boards[tasks[last.id].board].owner # last.user
    /\ \E a \in CommentIds : comments[a].author = last.user

\* C15: on PATCH status and priority may be omitted and every field the
\* payload does not carry keeps its value; on PUT a payload lacking status or
\* priority is rejected with a ValidationError keyed by a field it lacks, and
\* the task is unchanged.
C15_PartialAndFullUpdate ==
    \A u \in Users, t \in TaskIds :
        TaskAccess(u, t, "PUT") = "ok" =>
            \A p \in TaskPayloads :
                LET patch == TaskUpdateOutcome(u, t, "PATCH", p)
                    put == TaskUpdateOutcome(u, t, "PUT", p)
                    old == tasks[t]
                IN  /\ (~Given(p.board) /\ ~Given(p.status) /\ ~Given(p.priority)) =>
                          patch.result = "ok"
                    /\ patch.result = "ok" =>
                          /\ ~Given(p.status) => patch.row.column = old.column
                          /\ ~Given(p.priority) => patch.row.priority = old.priority
                          /\ ~Given(p.assignee) => patch.row.assignee = old.assignee
                          /\ ~Given(p.reviewer) => patch.row.reviewer = old.reviewer
                          /\ ~Given(p.due_date) => patch.row.due_date = old.due_date
                    /\ (~Given(p.status) \/ ~Given(p.priority)) =>
                          /\ put.result = "ValidationError"
                          /\ put.key \in {k \in {"status", "priority"} : ~Given(p[k])}

\* C16: a task create or update that changes the task's status into DONE sets
\* completed_at, and one that changes it out of DONE clears completed_at.
C16_CompletedAtFollowsDone ==
    [][(last'.op \in {"task_create", "task_update"} /\ Succeeded(last')) =>
        LET t == IF last'.op = "task_create" THEN nextId.task ELSE last'.id
            wasDone == /\ t \in TaskIds
                       /\ tasks[t].column # NoId
                       /\ columns[tasks[t].column].status = "DONE"
            isDone == /\ tasks'[t].column # NoId
                      /\ columns'[tasks'[t].column].status = "DONE"
        IN  /\ (isDone /\ ~wasDone) => tasks'[t].completed_at # NoDate
            /\ (wasDone /\ ~isDone) => tasks'[t].completed_at = NoDate]_vars

\* The columns of board b are the four that board creation made.
FreshBoard(b) ==
    /\ Cardinality(ColumnsOf(b)) = Len(DefaultColumns)
    /\ {columns[c] : c \in ColumnsOf(b)} = {DefaultColumn(b, k) : k \in 1..Len(DefaultColumns)}

\* C18: on a board with the columns of its creation, creating or updating a
\* task with status label L (to-do, in-progress, review, done) succeeds and
\* the task then reads back with status L; a task with no column reads back
\* with the empty status.
C18_StatusRoundTrip ==
    /\ \A b \in BoardIds, u \in Users, l \in DOMAIN LabelToChoice :
          (FreshBoard(b) /\ IsBoardMember(u, b)) =>
              LET p == [NoPayload EXCEPT !.board = {b}, !.status = {l}, !.priority = {"High"}]
                  c == TaskCreateOutcome(u, p)
              IN  /\ c.result = "created"
                  /\ GetStatus(c.row) = l
                  /\ \A t \in TasksOf(b) :
                        LET o == TaskUpdateOutcome(u, t, "PATCH", [NoPayload EXCEPT !.status = {l}])
                        IN  o.result = "ok" /\ GetStatus(o.row) = l
    /\ \A t \in TaskIds : tasks[t].column = NoId => GetStatus(tasks[t]) = ""
    /\ (last.op = "task_create" /\ last.result = "created" /\ FreshBoard(last.id)) =>
          \A t \in TasksOf(last.id) : GetStatus(tasks[t]) \in DOMAIN LabelToChoice

\* A task was created with status "done" on a board with the columns of its
\* creation and reads back as "done".
C18_Witness ==
    /\ last.op = "task_create"
    /\ last.result = "created"
    /\ FreshBoard(last.id)
    /\ \E t \in TasksOf(last.id) : GetStatus(tasks[t]) = "done"

\* C20: every task that has a column has a column of the task's own board.
C20_TaskColumnOnTaskBoard ==
    \A t \in TaskIds :
        tasks[t].column # NoId => columns[tasks[t].column].board = tasks[t].board

\* C17: the dashboard's urgent_tasks_count is the number of tasks whose
\* assignee is the caller, whose board has the caller among its members, whose
\* column status is TODO, whose priority is HIGH or CRITICAL and whose due date
\* is one of today, today+1, ..., today+7 (a null due date never counts);
\* computing the dashboard changes nothing in the store.
C17_UrgentTasksCount ==
    [][last'.op = "dashboard" =>
        LET u == last'.user
            today == last'.today
            urgent == {t \in TaskIds :
                         /\ tasks[t].assignee = u
                         /\ u \in boards[tasks[t].board].members
                         /\ tasks[t].column \in ColumnsWithStatus(tasks[t].board, "TODO")
                         /\ tasks[t].priority \in {"HIGH", "CRITICAL"}
                         /\ tasks[t].due_date # NoDate
                         /\ \E k \in 0..7 : tasks[t].due_date = today + k}
        IN  /\ u \in Users => /\ last'.result = "ok"
                              /\ last'.data.urgent_tasks_count = Cardinality(urgent)
            /\ u \notin Users => last'.result = "NotAuthenticated"
            /\ boards' = boards
            /\ columns' = columns
            /\ tasks' = tasks
            /\ comments' = comments]_vars

\* The dashboard counted one urgent task for a caller with two HIGH or
\* CRITICAL tasks in TODO, one due on today+7 and one due on today+8.
C17_Witness ==
    /\ last.op = "dashboard"
    /\ last.result = "ok"
    /\ last.data.urgent_tasks_count = 1
    /\ \E t1, t2 \in MyTasks(last.user) :
          /\ tasks[t1].due_date = last.today + 7
          /\ tasks[t2].due_date = last.today + 8
          /\ \A t \in {t1, t2} :
                /\ columns[tasks[t].column].status = "TODO"
                /\ tasks[t].priority \in {"HIGH", "CRITICAL"}

\* C19: in every state registration requests reach, in any order and any
\* interleaving, no two users have emails that are equal ignoring case.
C19_EmailsUniqueIgnoringCase ==
    \A a, b \in DOMAIN accounts :
        a # b => LowerCase(accounts[a].email) # LowerCase(accounts[b].email)

\* The tasks in the response r of a read that returns tasks.
ReturnedTasks(r) ==
    IF r.result # "ok" THEN {}
    ELSE IF r.op = "board_retrieve" THEN BoardDetailTasks(r.id)
    ELSE r.tasks

\* C21: every task that a task list, a task retrieve, assigned-to-me,
\* reviewing or a board detail returns belongs to a board of which the
\* caller is owner or member at the time of the request.
C21_TasksNotDisclosedOutsideBoard ==
    [][last'.op \in {"task_list", "task_retrieve", "assigned_to_me", "reviewing",
                     "board_retrieve"} =>
        \A t \in ReturnedTasks(last') :
            /\ t \in TaskIds
            /\ \/ boards[tasks[t].board].owner = last'.user
               \/ last'.user \in boards[tasks[t].board].members]_vars
====
